---- MODULE Spec2Model ----
(***************************************************************************)
(* A model of the agreement-signing portal (cu-library/mellyn):            *)
(* agreements, signatures, license codes and file access, as implemented   *)
(* in agreements/models.py and agreements/views.py.                        *)
(*                                                                         *)
(* The database runs in autocommit mode: every ORM save() outside of       *)
(* transaction.atomic() is committed on its own.  A signing request is     *)
(* therefore modelled as a sequence of steps (validate, insert signature,  *)
(* select-for-update, update code + commit) that interleave with the       *)
(* steps of other requests.                                                *)
(***************************************************************************)
EXTENDS Integers, FiniteSets, Sequences, TLC

(* ------------------------------ bounds --------------------------------- *)
MaxTime == 2
MaxSignatures == 3
MaxCodes == 3
MaxGroups == 3

(* --------------------------- finite universes --------------------------- *)
Users == {"u1", "u2"}
Anonymous == "anonymous"
Resources == {"r1", "r2"}
AgreementSlugs == {"a1", "a2"}
Slots == {1, 2}
Global == "*"

\* LicenseCode.signature is nullable: 0 stands for NULL (primary keys start at 1).
NoSignature == 0
\* request.license_code when .first() returned None
NoCode == 0
NoAttempt == <<>>
\* Resource.low_codes_threshold default
LowCodesDefault == 51
\* the divisor of num_rem in warn_low_number_unassigned_licensecodes
WarnEvery == 10

VARIABLES
    now,          \* django.utils.timezone.now(), in ticks
    agreements,   \* Agreement table: slug -> row
    signatures,   \* Signature table: set of rows (valid_at_signing is history:
                  \* what Agreement.valid() returned in test_func of the request
                  \* that created the row)
    codes,        \* LicenseCode table: set of rows
    perms,        \* granted permissions: <<user, codename, object or Global>>
    req,          \* in-flight AgreementRead POST requests, one per worker slot
    resp,         \* the response of the last finished AgreementRead POST
    nextSigId,    \* Signature primary key sequence
    nextCodeId,   \* LicenseCode primary key sequence
    attached,     \* history: every <<code id, signature id>> ever committed
    session,      \* per-user session key 'access_attempt'
    events,       \* FileDownloadEvent table
    access,       \* the response of the last ResourceAccess request
    resources,    \* Resource table: slug -> row
    users,        \* User table: username -> is_staff
    outbox,       \* warning mails sent so far, per resource
    page,         \* the response of the last list, read or staff view request
    fetch,        \* in-flight ResourceAccess requests, one per worker slot
    edit,         \* the in-flight ResourceLicenseCodeUpdate POST, if any
    groups,       \* auth Group table: set of rows
    groupdescriptions, \* GroupDescription table: set of rows
    nextGroupId,  \* Group primary key sequence
    gdel,         \* the in-flight GroupDescriptionDelete POST, if any
    form          \* the last submitted agreement form and what became of it

vars == <<now, agreements, signatures, codes, perms, req, resp, nextSigId, nextCodeId,
          attached, session, events, access, resources, users, outbox, page, fetch,
          edit, groups, groupdescriptions, nextGroupId, gdel, form>>

(* ----------------------------- Agreement -------------------------------- *)

AgreementValidStrictEnd(a, t) ==
    IF ~a.hidden
    THEN IF t >= a.start
         THEN IF a.end_isnull THEN TRUE
              ELSE IF t < a.end THEN TRUE ELSE FALSE
         ELSE FALSE
    ELSE FALSE

\* Agreement.valid(): the nested ifs of the method, with now() = t
AgreementValid(a, t) ==
    IF ~a.hidden
    THEN IF t >= a.start
         THEN IF a.end_isnull THEN TRUE
              ELSE IF t <= a.end THEN TRUE ELSE FALSE
         ELSE FALSE
    ELSE FALSE

QuerySetValidKeepsHidden(qs, t) ==
    LET started == {s \in qs : agreements[s].start <= t}
    IN  {s \in started : (~agreements[s].end_isnull /\ agreements[s].end >= t)
                           \/ agreements[s].end_isnull}

\* AgreementQuerySet.valid(): two filters and an exclude over a set of slugs
QuerySetValid(qs, t) ==
    LET started == {s \in qs : agreements[s].start <= t}
        notEnded == {s \in started : (~agreements[s].end_isnull /\ agreements[s].end >= t)
                                      \/ agreements[s].end_isnull}
    IN  notEnded \ {s \in notEnded : agreements[s].hidden = TRUE}

Existing == {s \in AgreementSlugs : agreements[s].exists}

(* ----------------------------- permissions ------------------------------ *)

has_perm_global(user, perm, obj) == <<user, perm, Global>> \in perms

\* views.has_perm: the global check or the per-object check
has_perm(user, perm, obj) ==
    (<<user, perm, Global>> \in perms) \/ (<<user, perm, obj>> \in perms)

(* ------------------------------ Signature ------------------------------- *)

\* PermissionRequiredCheckGlobalMixin: the global permission is accepted, the
\* permission on the object otherwise
check_permissions(u, perm, obj) ==
    (<<u, perm, Global>> \in perms) \/ (<<u, perm, obj>> \in perms)

SignatureExists(a, u) ==
    \E g \in signatures : g.agreement = a /\ g.signatory = u

SignatureIds == {g.id : g \in signatures}

\* Signature.full_clean(): ForeignKey.validate applies limit_choices_to
\* {'hidden': False}; validate_unique checks the (agreement, signatory)
\* UniqueConstraint with a query.
FullCleanOk(a, u) ==
    /\ agreements[a].exists
    /\ ~agreements[a].hidden
    /\ ~SignatureExists(a, u)

UniqueViolationNever(a, u) == FALSE

\* The database UniqueConstraint(agreement, signatory) checked by INSERT
UniqueViolation(a, u) == SignatureExists(a, u)

(* ------------------------------ LicenseCode ----------------------------- *)

\* the row a signing transaction holds: selected for update, or updated and
\* not yet committed
LockedBy(s) == IF req[s].pc \in {"locked", "updated"} THEN {req[s].code} ELSE {}

LockedByOthers(s) == UNION {LockedBy(o) : o \in Slots \ {s}}

AllLocked == UNION {LockedBy(o) : o \in Slots}

Unassigned(r) == {c \in codes : c.signature = NoSignature /\ c.resource = r}

CandidatesIgnoringLocks(s, r) == Unassigned(r)

\* the rows select_for_update(skip_locked=True).filter(signature=None, resource=r) can return
Candidates(s, r) == {c \in Unassigned(r) : c.id \notin LockedByOthers(s)}

OldestAny(cands) == cands

\* .order_by('added').first(): the rows that may come first
Oldest(cands) == {c \in cands : \A d \in cands : c.added <= d.added}

\* signals.warn_low_number_unassigned_licensecodes, the post_save handler of
\* LicenseCode: the number of mails it sends for a saved code of resource r,
\* rows being the LicenseCode table as the saving transaction sees it
warn_low_number_unassigned_licensecodes(rows, r) ==
    IF resources[r].low_codes_email = "" THEN 0
    ELSE LET num_rem == Cardinality({c \in rows : c.resource = r /\ c.signature = NoSignature})
         IN  IF num_rem > resources[r].low_codes_threshold THEN 0
             ELSE IF (num_rem % WarnEvery) # 0 THEN 0
             ELSE 1

(* ------------------------------- requests ------------------------------- *)

IdleReq == [pc |-> "idle", user |-> Anonymous, agreement |-> "a1", sig |-> NoSignature,
            code |-> NoCode, valid |-> FALSE, warned |-> 0]

\* the response of a finished signing request
Response(r, outcome, resign, redirect) ==
    [user |-> r.user, sig |-> r.sig, code |-> r.code, outcome |-> outcome,
     resign |-> resign, redirect |-> redirect]

NoResponse == Response(IdleReq, "none", FALSE, <<>>)

NoAccess == [user |-> Anonymous, resource |-> "r1", path |-> <<>>, outcome |-> "none",
             agreement |-> "none"]

\* a Resource row as Resource.objects.create(name, slug, description) leaves it
DefaultResource == [hidden |-> FALSE, low_codes_threshold |-> LowCodesDefault,
                    low_codes_email |-> ""]

\* a User row as create_user leaves it
DefaultUser == [is_staff |-> FALSE, is_superuser |-> FALSE]

\* the response of a list, read or staff view
PageResponse(u, view, obj, outcome, listed) ==
    [user |-> u, view |-> view, obj |-> obj, outcome |-> outcome, listed |-> listed]

NoPage == PageResponse(Anonymous, "none", "none", "none", {})

IdleFetch == [pc |-> "idle", user |-> Anonymous, resource |-> "r1", path |-> <<>>,
              agreement |-> "none"]

\* no GroupDescription being deleted
IdleDelete == [pc |-> "idle", slug |-> "none", name |-> "none", group |-> 0]

\* an agreement form as submitted: the fields the model keeps
AgreementFormData(r, w, h) ==
    [resource |-> r, start |-> w.start, end_isnull |-> w.end_isnull, end |-> w.end, hidden |-> h]

\* a submitted agreement form, its non-field errors and the answer
FormResponse(u, view, a, data, errors, outcome) ==
    [user |-> u, view |-> view, agreement |-> a,
     data |-> [resource |-> data.resource, start |-> data.start,
               end_isnull |-> data.end_isnull, end |-> data.end, hidden |-> data.hidden],
     errors |-> errors, outcome |-> outcome]

NoForm == FormResponse(Anonymous, "none", "none",
                       [resource |-> "r1", start |-> 0, end_isnull |-> TRUE, end |-> 0,
                        hidden |-> FALSE], {}, "none")

\* no replace submission under way
IdleEdit == [pc |-> "idle", resource |-> "r1", batch |-> <<>>, ids |-> {}]

(* -------------------------------- Init ---------------------------------- *)

AlwaysOpen == [start |-> 0, end_isnull |-> TRUE, end |-> 0]
Window01 == [start |-> 0, end_isnull |-> FALSE, end |-> 1]

Row(r, w, h, d) == [exists |-> TRUE, resource |-> r, start |-> w.start,
                    end_isnull |-> w.end_isnull, end |-> w.end, hidden |-> h, created |-> d]

\* one unassigned license code of resource r1
OneCode == {[id |-> 1, resource |-> "r1", code |-> "abc", added |-> 1, signature |-> NoSignature]}

\* empty tables but for the license codes in rows and the resources in res,
\* nobody logged in or signing
InitTables(rows, res) ==
    /\ now = 0
    /\ signatures = {}
    /\ codes = rows
    /\ perms = {}
    /\ req = [s \in Slots |-> IdleReq]
    /\ resp = NoResponse
    /\ nextSigId = 1
    /\ nextCodeId = Cardinality(rows) + 1
    /\ attached = {}
    /\ session = [u \in Users |-> NoAttempt]
    /\ events = {}
    /\ access = NoAccess
    /\ resources = res
    /\ users = [u \in Users |-> DefaultUser]
    /\ outbox = [r \in Resources |-> 0]
    /\ page = NoPage
    /\ fetch = [s \in Slots |-> IdleFetch]
    /\ edit = IdleEdit
    /\ groups = {}
    /\ groupdescriptions = {}
    /\ nextGroupId = 1
    /\ gdel = IdleDelete
    /\ form = NoForm

InitWith(rows) == InitTables(rows, [r \in Resources |-> DefaultResource])

InitRest == InitWith({})

Absent == [Row("r1", AlwaysOpen, FALSE, 0) EXCEPT !.exists = FALSE]

\* One open agreement on resource r1
Init ==
    /\ agreements = [a \in AgreementSlugs |-> IF a = "a1" THEN Row("r1", AlwaysOpen, FALSE, 0)
                                               ELSE Absent]
    /\ InitRest

(* ------------------------ AgreementRead (signing) ----------------------- *)

\* dispatch (LoginRequiredMixin, UserPassesTestMixin.test_func) and the first
\* half of form_valid up to signature.full_clean()
SignSubmit(s, u, a) ==
    /\ req[s].pc = "idle"
    /\ \A o \in Slots : o < s => req[o].pc # "idle"
    /\ nextSigId <= MaxSignatures
    /\ LET r == [IdleReq EXCEPT !.user = u, !.agreement = a]
           early == IF u = Anonymous THEN "login"
                    ELSE IF ~agreements[a].exists THEN "not_found"
                    ELSE IF ~(AgreementValid(agreements[a], now)
                              \/ has_perm(u, "view_agreement", a)) THEN "forbidden"
                    ELSE IF ~FullCleanOk(a, u) THEN "already_signed"
                    ELSE "none"
       IN  IF early # "none"
           THEN /\ resp' = Response(r, early, u # Anonymous /\ SignatureExists(a, u),
                                    IF early = "already_signed" THEN <<"agreements_read", a>>
                                    ELSE <<>>)
                /\ UNCHANGED req
           ELSE /\ req' = [req EXCEPT ![s] = [r EXCEPT !.pc = "validated",
                                                       !.valid = AgreementValid(agreements[a], now)]]
                /\ UNCHANGED resp
    /\ UNCHANGED <<now, agreements, signatures, codes, perms, nextSigId, nextCodeId,
                   attached, session, events, access,
                   resources, users, outbox, page, fetch, edit,
                   groups, groupdescriptions, nextGroupId, gdel, form>>

\* AgreementRead GET: LoginRequiredMixin, get_object, test_func, then the page
AgreementReadGet(u, a) ==
    /\ resp' = Response([IdleReq EXCEPT !.user = u],
                        IF u = Anonymous THEN "login"
                        ELSE IF ~agreements[a].exists THEN "not_found"
                        ELSE IF AgreementValid(agreements[a], now) THEN "page"
                        ELSE IF has_perm(u, "view_agreement", a) THEN "page"
                        ELSE "forbidden",
                        FALSE, <<"agreements_read", a>>)
    /\ UNCHANGED <<now, agreements, signatures, codes, perms, req, nextSigId, nextCodeId,
                   attached, session, events, access,
                   resources, users, outbox, page, fetch, edit,
                   groups, groupdescriptions, nextGroupId, gdel, form>>

\* signature.save(): an INSERT committed on its own
SignSave(s) ==
    /\ req[s].pc = "validated"
    /\ LET r == req[s]
           a == r.agreement
           u == r.user
       IN  IF ~agreements[a].exists \/ UniqueViolation(a, u)
           THEN /\ resp' = Response(r, "IntegrityError", SignatureExists(a, u), <<>>)
                /\ req' = [req EXCEPT ![s] = IdleReq]
                /\ UNCHANGED <<signatures, nextSigId>>
           ELSE /\ signatures' = signatures \cup
                       {[id |-> nextSigId, agreement |-> a, signatory |-> u,
                         valid_at_signing |-> r.valid]}
                /\ nextSigId' = nextSigId + 1
                /\ req' = [req EXCEPT ![s] = [r EXCEPT !.pc = "saved", !.sig = nextSigId]]
                /\ UNCHANGED resp
    /\ UNCHANGED <<now, agreements, codes, perms, nextCodeId, attached, session, events, access,
                   resources, users, outbox, page, fetch, edit,
                   groups, groupdescriptions, nextGroupId, gdel, form>>

SignRedirectToAgreement(r) == <<"agreements_read", r.agreement>>

\* lines 565-568: where the request is redirected after signing
SignRedirect(r) ==
    IF session[r.user] # NoAttempt
    THEN <<"resources_access", session[r.user][1], session[r.user][2]>>
    ELSE <<"agreements_read", r.agreement>>

\* transaction.atomic() entry and the select_for_update query
SignSelect(s) ==
    /\ req[s].pc = "saved"
    /\ LET r == req[s]
           a == r.agreement
       IN  IF ~agreements[a].exists
           THEN /\ resp' = Response(r, "not_found", FALSE, <<>>)
                /\ req' = [req EXCEPT ![s] = IdleReq]
                /\ UNCHANGED session
           ELSE LET cands == Candidates(s, agreements[a].resource)
                IN  IF cands = {}
                    THEN /\ resp' = Response(r, "signed", FALSE, SignRedirect(r))
                         /\ req' = [req EXCEPT ![s] = IdleReq]
                         /\ session' = [session EXCEPT ![r.user] = NoAttempt]
                    ELSE /\ \E c \in Oldest(cands) :
                               req' = [req EXCEPT ![s] = [r EXCEPT !.pc = "locked", !.code = c.id]]
                         /\ UNCHANGED <<resp, session>>
    /\ UNCHANGED <<now, agreements, signatures, codes, perms, nextSigId, nextCodeId,
                   attached, events, access,
                   resources, users, outbox, page, fetch, edit,
                   groups, groupdescriptions, nextGroupId, gdel, form>>

\* license_code.signature = signature; license_code.save() inside the atomic
\* block: the UPDATE is seen by this transaction only, then post_save runs
SignClaim(s) ==
    /\ req[s].pc = "locked"
    /\ LET r == req[s]
           c == CHOOSE d \in codes : d.id = r.code
           seen == {IF d.id = r.code THEN [d EXCEPT !.signature = r.sig] ELSE d : d \in codes}
       IN  IF r.sig \notin SignatureIds
           THEN /\ resp' = Response([r EXCEPT !.code = NoCode], "IntegrityError", FALSE, <<>>)
                /\ req' = [req EXCEPT ![s] = IdleReq]
                /\ UNCHANGED outbox
           ELSE /\ outbox' = [outbox EXCEPT ![c.resource] =
                                 @ + warn_low_number_unassigned_licensecodes(seen, c.resource)]
                /\ req' = [req EXCEPT ![s] =
                              [r EXCEPT !.pc = "updated",
                                        !.warned = warn_low_number_unassigned_licensecodes(
                                                       seen, c.resource)]]
                /\ UNCHANGED resp
    /\ UNCHANGED <<now, agreements, signatures, codes, perms, nextSigId, nextCodeId, attached,
                   session, events, access, resources, users, page, fetch, edit,
                   groups, groupdescriptions, nextGroupId, gdel, form>>

\* leaving the atomic block: COMMIT, then the redirect of lines 565-568
SignCommit(s) ==
    /\ req[s].pc = "updated"
    /\ LET r == req[s]
       IN  /\ codes' = {IF c.id = r.code THEN [c EXCEPT !.signature = r.sig] ELSE c : c \in codes}
           /\ attached' = attached \cup {<<r.code, r.sig>>}
           /\ resp' = Response(r, "signed", FALSE, SignRedirect(r))
           /\ session' = [session EXCEPT ![r.user] = NoAttempt]
    /\ req' = [req EXCEPT ![s] = IdleReq]
    /\ UNCHANGED <<now, agreements, signatures, perms, nextSigId, nextCodeId, events, access,
                   resources, users, outbox, page, fetch, edit,
                   groups, groupdescriptions, nextGroupId, gdel, form>>

\* The request dies after signature.save(): the worker is killed before the
\* atomic block, or an exception is raised inside it (the post_save handler
\* sends mail with fail_silently=False).  The open transaction rolls back.
SignAbort(s) ==
    /\ req[s].pc \in {"saved", "locked", "updated"}
    /\ resp' = Response([req[s] EXCEPT !.code = NoCode], "aborted", FALSE, <<>>)
    /\ req' = [req EXCEPT ![s] = IdleReq]
    /\ UNCHANGED <<now, agreements, signatures, codes, perms, nextSigId, nextCodeId,
                   attached, session, events, access,
                   resources, users, outbox, page, fetch, edit,
                   groups, groupdescriptions, nextGroupId, gdel, form>>

(* ------------------------------ admin views ----------------------------- *)

\* AgreementDelete: Signature.agreement is CASCADE, LicenseCode.signature is SET_NULL.
\* The DELETE of a Signature waits for a transaction whose uncommitted UPDATE
\* refers to it (the foreign key's row lock).
AgreementDelete(a) ==
    /\ agreements[a].exists
    /\ \A s \in Slots : req[s].pc = "updated" => req[s].agreement # a
    /\ LET gone == {g \in signatures : g.agreement = a}
           goneIds == {g.id : g \in gone}
       IN  /\ signatures' = signatures \ gone
           /\ codes' = {IF c.signature \in goneIds THEN [c EXCEPT !.signature = NoSignature] ELSE c
                        : c \in codes}
    /\ agreements' = [agreements EXCEPT ![a] = Absent]
    /\ UNCHANGED <<now, perms, req, resp, nextSigId, nextCodeId, attached, session, events, access,
                   resources, users, outbox, page, fetch, edit,
                   groups, groupdescriptions, nextGroupId, gdel, form>>

\* the code of the non-field error '"End" date and time is before "Start"
\* date and time.'
StartAfterEnd == "start_date_after_end_date"

AgreementBaseForm_cleanNothing(data) == {}

\* AgreementBaseForm.clean: the non-field errors it adds
AgreementBaseForm_clean(data) ==
    IF ~data.end_isnull
    THEN IF data.start > data.end THEN {StartAfterEnd} ELSE {}
    ELSE {}

\* Agreement.Meta.constraints: end is null or end > start
end_null_or_gt_start(row) == row.end_isnull \/ row.end > row.start

\* the start and end a form can carry: end is a time, or empty (NoEnd)
NoEnd == -1
FormStarts == 0..MaxTime
FormEnds == {NoEnd} \cup (0..MaxTime)

\* the cleaned start and end of a form
FormWindow(s, e) ==
    IF e = NoEnd THEN [start |-> s, end_isnull |-> TRUE, end |-> 0]
    ELSE [start |-> s, end_isnull |-> FALSE, end |-> e]

\* an answer that stores nothing
FormAnswer(f) ==
    /\ form' = f
    /\ UNCHANGED <<now, agreements, signatures, codes, perms, req, resp, nextSigId, nextCodeId,
                   attached, session, events, access, resources, users, outbox, page, fetch,
                   edit, groups, groupdescriptions, nextGroupId, gdel>>

\* ModelForm.save under autocommit: the INSERT or UPDATE of the row, which the
\* database refuses with an IntegrityError when the check constraint fails
AgreementSave(u, view, a, data, row) ==
    IF end_null_or_gt_start(row)
    THEN /\ agreements' = [agreements EXCEPT ![a] = row]
         /\ form' = FormResponse(u, view, a, data, {}, "saved")
         /\ UNCHANGED <<now, signatures, codes, perms, req, resp, nextSigId, nextCodeId,
                        attached, session, events, access, resources, users, outbox, page,
                        fetch, edit, groups, groupdescriptions, nextGroupId, gdel>>
    ELSE FormAnswer(FormResponse(u, view, a, data, {}, "IntegrityError"))

\* AgreementCreate POST: PermissionRequiredMixin (the global permission only),
\* the form's validation (clean, then the unique slug), then form.save()
AgreementCreate(u, a, data) ==
    LET view == "agreements_create"
        errors == AgreementBaseForm_clean(data)
                     \cup (IF agreements[a].exists THEN {"unique"} ELSE {})
    IN  IF u = Anonymous
        THEN FormAnswer(FormResponse(u, view, a, data, {}, "login"))
        ELSE IF <<u, "add_agreement", Global>> \notin perms
        THEN FormAnswer(FormResponse(u, view, a, data, {}, "forbidden"))
        ELSE IF errors # {}
        THEN FormAnswer(FormResponse(u, view, a, data, errors, "form_invalid"))
        ELSE AgreementSave(u, view, a, data, Row(data.resource, data, data.hidden, now))

\* AgreementUpdate POST: LoginRequiredMixin, get_object, the permission check,
\* the form's validation (the slug is disabled), then form.save()
AgreementUpdate(u, a, data) ==
    LET view == "agreements_update"
        errors == AgreementBaseForm_clean(data)
    IN  IF u = Anonymous
        THEN FormAnswer(FormResponse(u, view, a, data, {}, "login"))
        ELSE IF ~agreements[a].exists
        THEN FormAnswer(FormResponse(u, view, a, data, {}, "not_found"))
        ELSE IF ~check_permissions(u, "change_agreement", a)
        THEN FormAnswer(FormResponse(u, view, a, data, {}, "forbidden"))
        ELSE IF errors # {}
        THEN FormAnswer(FormResponse(u, view, a, data, errors, "form_invalid"))
        ELSE AgreementSave(u, view, a, data,
                           Row(data.resource, data, data.hidden, agreements[a].created))

\* LicenseCodesField.validate: a code already stored for the resource, or
\* repeated in the submission, fails the form
CodeExists(rows, r, code) == \E c \in rows : c.resource = r /\ c.code = code

CodesFieldValidInBatch(r, batch) ==
    \A i, j \in 1..Len(batch) : i # j => batch[i] # batch[j]

CodesFieldValid(r, batch) ==
    /\ \A i \in 1..Len(batch) : ~CodeExists(codes, r, batch[i])
    /\ \A i, j \in 1..Len(batch) : i # j => batch[i] # batch[j]

NewCodeForWaiting(nextId, r, code) ==
    LET waiting == {g \in signatures : /\ agreements[g.agreement].resource = r
                                       /\ \A c \in codes : c.signature # g.id}
    IN  [id |-> nextId, resource |-> r, code |-> code, added |-> nextId,
         signature |-> IF waiting = {} THEN NoSignature
                       ELSE (CHOOSE g \in waiting : \A h \in waiting : g.id <= h.id).id]

\* LicenseCode(resource=resource, code=code): a new row, attached to no signature
NewCode(nextId, r, code) ==
    [id |-> nextId, resource |-> r, code |-> code, added |-> nextId, signature |-> NoSignature]

\* LicenseCode.code is a CharField(max_length=300)
MaxCodeLength == 300

\* a line of 301 characters
LongCode == "x301"

\* len(code)
CodeLength(code) == IF code = LongCode THEN 301 ELSE 3

\* license_code.full_clean(): the field validators and the unique constraint
full_clean(rows, r, code) == CodeLength(code) <= MaxCodeLength /\ ~CodeExists(rows, r, code)

\* the loop of ResourceLicenseCodeAdd.form_valid: <<rows, next id, failed>>
\* after saving the codes of the batch that are not stored yet, up to the
\* first one full_clean() refuses
RECURSIVE SaveCodes(_, _, _, _, _)
SaveCodes(rows, nextId, r, batch, t) ==
    IF batch = <<>> THEN <<rows, nextId, FALSE>>
    ELSE IF CodeExists(rows, r, Head(batch))
         THEN SaveCodes(rows, nextId, r, Tail(batch), t)
         ELSE IF ~full_clean(rows, r, Head(batch)) THEN <<rows, nextId, TRUE>>
         ELSE SaveCodes(rows \cup {NewCode(nextId, r, Head(batch))},
                        nextId + 1, r, Tail(batch), t)

\* the mails the post_save handler sends during that loop, one call per saved code
RECURSIVE SaveWarnings(_, _, _, _)
SaveWarnings(rows, nextId, r, batch) ==
    IF batch = <<>> THEN 0
    ELSE IF CodeExists(rows, r, Head(batch))
         THEN SaveWarnings(rows, nextId, r, Tail(batch))
         ELSE IF ~full_clean(rows, r, Head(batch)) THEN 0
         ELSE LET saved == rows \cup {NewCode(nextId, r, Head(batch))}
              IN  warn_low_number_unassigned_licensecodes(saved, r)
                  + SaveWarnings(saved, nextId + 1, r, Tail(batch))

Batches == {<<"abc">>, <<"ghi">>, <<"abc", "ghi">>, <<"abc", "abc">>}

\* LicenseCodeForm, the form class of both license code views (views.py:338,
\* 375): one line per code, a code repeated in the submission or already
\* stored for the resource is rejected
LicenseCodeForm(r, batch) == batch # <<>> /\ CodesFieldValid(r, batch)

\* ResourceLicenseCodeAdd: form validation, then form_valid (the license codes
\* are maintained by one member of staff, one submission at a time)
LicenseCodeAdd(r, batch) ==
    /\ edit.pc = "idle"
    /\ LicenseCodeForm(r, batch)
    /\ LET res == SaveCodes(codes, nextCodeId, r, batch, now)
       IN  /\ res[2] - 1 <= MaxCodes
           /\ codes' = res[1]
           /\ nextCodeId' = res[2]
           /\ page' = PageResponse("u2", "resources_codes_add", r,
                                   IF res[3] THEN "error" ELSE "added", {})
    /\ outbox' = [outbox EXCEPT ![r] = @ + SaveWarnings(codes, nextCodeId, r, batch)]
    /\ UNCHANGED <<now, agreements, signatures, perms, req, resp, nextSigId, attached,
                   session, events, access, resources, users, fetch, edit,
                   groups, groupdescriptions, nextGroupId, gdel, form>>

\* ResourceLicenseCodeUpdate.codes_to_delete: the unassigned codes of the
\* resource, less the submitted ones
codes_to_delete(r, batch) ==
    {c \in codes : /\ c.resource = r
                   /\ c.signature = NoSignature
                   /\ \A i \in 1..Len(batch) : c.code # batch[i]}

\* ResourceLicenseCodeUpdate: form validation, then codes_to_delete.delete()
\* up to its SELECT.  LicenseCode has signal receivers (HistoricalRecords), so
\* delete() first fetches the rows of the queryset and then deletes them by
\* primary key.
LicenseCodeUpdate(r, batch) ==
    /\ edit.pc = "idle"
    /\ LicenseCodeForm(r, batch)
    /\ edit' = [pc |-> "collected", resource |-> r, batch |-> batch,
                ids |-> {c.id : c \in codes_to_delete(r, batch)}]
    /\ UNCHANGED <<now, agreements, signatures, codes, perms, req, resp, nextSigId, nextCodeId,
                   attached, session, events, access, resources, users, outbox, page, fetch,
                   groups, groupdescriptions, nextGroupId, gdel, form>>

\* the rest of ResourceLicenseCodeUpdate.form_valid: DELETE ... WHERE id IN
\* the fetched keys, which waits for row locks held by a signing transaction,
\* then ResourceLicenseCodeAdd.form_valid
LicenseCodeUpdateDelete ==
    /\ edit.pc = "collected"
    /\ edit.ids \cap AllLocked = {}
    /\ LET kept == {c \in codes : c.id \notin edit.ids}
           res == SaveCodes(kept, nextCodeId, edit.resource, edit.batch, now)
       IN  /\ res[2] - 1 <= MaxCodes
           /\ codes' = res[1]
           /\ nextCodeId' = res[2]
           /\ outbox' = [outbox EXCEPT ![edit.resource] =
                            @ + SaveWarnings(kept, nextCodeId, edit.resource, edit.batch)]
           /\ page' = PageResponse("u2", "resources_codes_update", edit.resource,
                                   IF res[3] THEN "error" ELSE "added", {})
    /\ edit' = IdleEdit
    /\ UNCHANGED <<now, agreements, signatures, perms, req, resp, nextSigId, attached,
                   session, events, access, resources, users, fetch,
                   groups, groupdescriptions, nextGroupId, gdel, form>>

\* the steps of replace submissions for the resources in R with the lists in B
Replacing(R, B) ==
    \/ \E r \in R, b \in B : LicenseCodeUpdate(r, b)
    \/ LicenseCodeUpdateDelete

\* the users whose group is given agreements.view_agreement on an agreement
\* (AgreementPermissionsGroupUpdate, form.save_obj_perms)
Staff == {"u2"}

GrantPerm(u, perm, obj) ==
    /\ <<u, perm, obj>> \notin perms
    /\ perms' = perms \cup {<<u, perm, obj>>}
    /\ UNCHANGED <<now, agreements, signatures, codes, req, resp, nextSigId, nextCodeId,
                   attached, session, events, access,
                   resources, users, outbox, page, fetch, edit,
                   groups, groupdescriptions, nextGroupId, gdel, form>>

RevokePerm(u, perm, obj) ==
    /\ <<u, perm, obj>> \in perms
    /\ perms' = perms \ {<<u, perm, obj>>}
    /\ UNCHANGED <<now, agreements, signatures, codes, req, resp, nextSigId, nextCodeId,
                   attached, session, events, access,
                   resources, users, outbox, page, fetch, edit,
                   groups, groupdescriptions, nextGroupId, gdel, form>>

\* one tick is five minutes, longer than a file request takes
Tick ==
    /\ now < MaxTime
    /\ \A s \in Slots : fetch[s].pc = "idle"
    /\ now' = now + 1
    /\ UNCHANGED <<agreements, signatures, codes, perms, req, resp, nextSigId, nextCodeId,
                   attached, session, events, access,
                   resources, users, outbox, page, fetch, edit,
                   groups, groupdescriptions, nextGroupId, gdel, form>>

(* -------------------------- list and read views ------------------------- *)

\* Resource.hidden as the views read it
ResourceHidden(r) == resources[r].hidden

\* resource.hidden = h; resource.save()
ResourceSetHidden(r, h) ==
    /\ resources[r].hidden # h
    /\ resources' = [resources EXCEPT ![r].hidden = h]
    /\ UNCHANGED <<now, agreements, signatures, codes, perms, req, resp, nextSigId, nextCodeId,
                   attached, session, events, access,
                   users, outbox, page, fetch, edit,
                   groups, groupdescriptions, nextGroupId, gdel, form>>

ResourceListAll(u) == Resources

\* ResourceList.get_queryset
ResourceList_get_queryset(u) ==
    {r \in Resources : (~ResourceHidden(r)) \/ has_perm(u, "view_resource", r)}

\* ResourceRead.test_func
ResourceRead_test_func(u, r) ==
    IF ~ResourceHidden(r) THEN TRUE ELSE has_perm(u, "view_resource", r)

AgreementListAll(u) == Existing

\* AgreementList.get_queryset
AgreementList_get_queryset(u) ==
    {a \in Existing : (~agreements[a].hidden) \/ has_perm(u, "view_agreement", a)}

\* a GET of a view that changes nothing but the page it answers with
Serve(p) ==
    /\ page' = p
    /\ UNCHANGED <<now, agreements, signatures, codes, perms, req, resp, nextSigId, nextCodeId,
                   attached, session, events, access,
                   resources, users, outbox, fetch, edit,
                   groups, groupdescriptions, nextGroupId, gdel, form>>

\* ResourceList: LoginRequiredMixin, then the filtered list
ResourceList(u) ==
    Serve(IF u = Anonymous THEN PageResponse(u, "resources_list", "none", "login", {})
          ELSE PageResponse(u, "resources_list", "none", "page", ResourceList_get_queryset(u)))

\* ResourceRead: LoginRequiredMixin, test_func, then the page
ResourceRead(u, r) ==
    Serve(PageResponse(u, "resources_read", r,
                       IF u = Anonymous THEN "login"
                       ELSE IF ResourceRead_test_func(u, r) THEN "page"
                       ELSE "forbidden", {}))

\* ResourceLicenseCode: LoginRequiredMixin, the permission check (403 when it
\* fails), then the page of codes
ResourceLicenseCode(u, r) ==
    Serve(PageResponse(u, "resources_codes_list", r,
                       IF u = Anonymous THEN "login"
                       ELSE IF check_permissions(u, "resource_view_licensecodes", r) THEN "page"
                       ELSE "forbidden", {}))

\* AgreementList: LoginRequiredMixin, then the filtered list
AgreementList(u) ==
    Serve(IF u = Anonymous THEN PageResponse(u, "agreements_list", "none", "login", {})
          ELSE PageResponse(u, "agreements_list", "none", "page", AgreementList_get_queryset(u)))

\* the per-object permissions CustomGroupObjectPermissionsForm offers (the
\* default permissions of the model less add_ and delete_)
ResourceObjectPerms == {"change_resource", "view_resource"}
AgreementObjectPerms == {"change_agreement", "view_agreement"}

\* form.save_obj_perms(): the group's permissions on the object become the
\* submitted ones (t is the member of the group)
save_obj_perms(t, obj, offered, chosen) ==
    (perms \ {<<t, p, obj>> : p \in offered}) \cup {<<t, p, obj>> : p \in chosen}

\* a POST of one of the two views that update per-object group permissions:
\* LoginRequiredMixin, get_object, the permission check, then form_valid
PermissionsGroupUpdate(u, view, required, found, t, obj, offered, chosen) ==
    LET outcome == IF u = Anonymous THEN "login"
                   ELSE IF ~found THEN "not_found"
                   ELSE IF ~check_permissions(u, required, obj) THEN "forbidden"
                   ELSE "saved"
    IN  /\ page' = PageResponse(u, view, obj, outcome, {})
        /\ perms' = IF outcome = "saved" THEN save_obj_perms(t, obj, offered, chosen) ELSE perms
        /\ UNCHANGED <<now, agreements, signatures, codes, req, resp, nextSigId, nextCodeId,
                       attached, session, events, access, resources, users, outbox, fetch, edit,
                       groups, groupdescriptions, nextGroupId, gdel, form>>

\* ResourcePermissionsGroupUpdate: permission_required is change_resource
ResourcePermissionsGroupUpdate(u, t, r, chosen) ==
    PermissionsGroupUpdate(u, "resources_permissions_groups_update", "change_resource",
                           TRUE, t, r, ResourceObjectPerms, chosen)

\* AgreementPermissionsGroupUpdate: permission_required is add_agreement
AgreementPermissionsGroupUpdate(u, t, a, chosen) ==
    PermissionsGroupUpdate(u, "agreements_permissions_groups_update", "add_agreement",
                           agreements[a].exists, t, a, AgreementObjectPerms, chosen)

(* --------------------------- GroupDescription --------------------------- *)

GroupNames == {"staff", "library"}
GroupSlugs == {"staff", "library", "create"}
Descriptions == {"", "text"}

\* Group.objects.get_or_create(name=name): <<Group table, id of the group,
\* next id>> afterwards
get_or_create(name) ==
    IF \E g \in groups : g.name = name
    THEN <<groups, (CHOOSE g \in groups : g.name = name).id, nextGroupId>>
    ELSE <<groups \cup {[id |-> nextGroupId, name |-> name]}, nextGroupId, nextGroupId + 1>>

\* GroupDescriptionCreate: the form (name and slug unique, slug not 'create'),
\* then GroupDescription.save()
GroupDescriptionCreate(name, slug, text) ==
    /\ slug # "create"
    /\ \A d \in groupdescriptions : d.name # name /\ d.slug # slug
    /\ LET res == get_or_create(name)
       IN  /\ res[3] - 1 <= MaxGroups
           /\ groups' = res[1]
           /\ nextGroupId' = res[3]
           /\ groupdescriptions' = groupdescriptions \cup
                 {[name |-> name, slug |-> slug, description |-> text, group |-> res[2]]}
    /\ UNCHANGED <<now, agreements, signatures, codes, perms, req, resp, nextSigId, nextCodeId,
                   attached, session, events, access, resources, users, outbox, page, fetch,
                   edit, gdel, form>>

\* GroupDescriptionUpdate: name and slug are disabled in the form, the
\* description changes, then GroupDescription.save()
GroupDescriptionUpdate(slug, text) ==
    /\ \E d \in groupdescriptions :
          /\ d.slug = slug
          /\ d.description # text
          /\ LET res == get_or_create(d.name)
             IN  /\ res[3] - 1 <= MaxGroups
                 /\ groups' = res[1]
                 /\ nextGroupId' = res[3]
                 /\ groupdescriptions' = (groupdescriptions \ {d}) \cup
                       {[d EXCEPT !.description = text, !.group = res[2]]}
    /\ UNCHANGED <<now, agreements, signatures, codes, perms, req, resp, nextSigId, nextCodeId,
                   attached, session, events, access, resources, users, outbox, page, fetch,
                   edit, gdel, form>>

\* GroupDescription.delete(), first statement: super().delete()
GroupDescriptionDelete(slug) ==
    /\ gdel.pc = "idle"
    /\ \E d \in groupdescriptions :
          /\ d.slug = slug
          /\ groupdescriptions' = groupdescriptions \ {d}
          /\ gdel' = [pc |-> "deleted", slug |-> slug, name |-> d.name, group |-> d.group]
    /\ UNCHANGED <<now, agreements, signatures, codes, perms, req, resp, nextSigId, nextCodeId,
                   attached, session, events, access, resources, users, outbox, page, fetch,
                   edit, groups, nextGroupId, form>>

GroupDeleteNone(id) == groups

\* the Group table after group.delete()
GroupDelete(id) == {g \in groups : g.id # id}

\* GroupDescription.delete(), second statement: self.group.delete(), which
\* cascades to a GroupDescription that points to the group
GroupDescriptionDeleteGroup ==
    /\ gdel.pc = "deleted"
    /\ groups' = GroupDelete(gdel.group)
    /\ groupdescriptions' = {d \in groupdescriptions : d.group # gdel.group}
    /\ gdel' = IdleDelete
    /\ UNCHANGED <<now, agreements, signatures, codes, perms, req, resp, nextSigId, nextCodeId,
                   attached, session, events, access, resources, users, outbox, page, fetch,
                   edit, nextGroupId, form>>

(* ------------------------------ staff views ----------------------------- *)

\* user.is_staff = staff; user.is_superuser = super; user.save()
UserSave(t, staff, super) ==
    /\ users[t] # [is_staff |-> staff, is_superuser |-> super]
    /\ users' = [users EXCEPT ![t] = [is_staff |-> staff, is_superuser |-> super]]
    /\ UNCHANGED <<now, agreements, signatures, codes, perms, req, resp, nextSigId, nextCodeId,
                   attached, session, events, access,
                   resources, outbox, page, fetch, edit,
                   groups, groupdescriptions, nextGroupId, gdel, form>>

test_func_logged_in(u) == u # Anonymous

\* accounts.views.IsStaffMixin.test_func (AnonymousUser.is_staff is False)
IsStaffMixin_test_func(u) == u # Anonymous /\ users[u].is_staff

\* mellyn.views.IsStaffMixin.test_func
AdminIsStaffMixin_test_func(u) == u # Anonymous /\ users[u].is_staff

\* UserList: raise_exception is set, a failed test is answered 403
UserList(u) ==
    Serve(PageResponse(u, "users_list", "none",
                       IF IsStaffMixin_test_func(u) THEN "page" ELSE "forbidden", {}))

\* UserRead
UserRead(u, t) ==
    Serve(PageResponse(u, "users_read", t,
                       IF IsStaffMixin_test_func(u) THEN "page" ELSE "forbidden", {}))

\* UserUpdate GET
UserUpdate(u, t) ==
    Serve(PageResponse(u, "users_update", t,
                       IF IsStaffMixin_test_func(u) THEN "page" ELSE "forbidden", {}))

\* UserUpdate POST: UserUberUpdateForm (all fields, is_staff among them) for
\* a superuser, UserUpdateForm (groups only) otherwise; is_superuser is left
\* as it is
UserUpdatePost(u, t, staff) ==
    /\ page' = PageResponse(u, "users_update_post", t,
                            IF IsStaffMixin_test_func(u) THEN "redirect" ELSE "forbidden", {})
    /\ users' = IF IsStaffMixin_test_func(u) /\ users[u].is_superuser
                THEN [users EXCEPT ![t].is_staff = staff]
                ELSE users
    /\ UNCHANGED <<now, agreements, signatures, codes, perms, req, resp, nextSigId, nextCodeId,
                   attached, session, events, access,
                   resources, outbox, fetch, edit,
                   groups, groupdescriptions, nextGroupId, gdel, form>>

\* AdminView: LoginRequiredMixin before IsStaffMixin, whose raise_exception
\* also makes the login check answer 403
AdminView(u) ==
    Serve(PageResponse(u, "admin", "none",
                       IF u = Anonymous THEN "forbidden"
                       ELSE IF AdminIsStaffMixin_test_func(u) THEN "page"
                       ELSE "forbidden", {}))

(* ---------------------------- ResourceAccess ---------------------------- *)

\* An access path is the sequence of its '/'-separated segments; a trailing
\* slash is a last empty segment.
AccessPaths == {<<"doc.txt">>, <<"dir", "">>, <<"..", "doc.txt">>}

\* every path the file access requests try: a file, a directory with and
\* without its slash, the root, a missing name, traversals, a file whose name
\* holds two dots, and a leading slash
Paths == AccessPaths \cup {<<>>, <<"dir">>, <<"missing">>, <<"dir", "..", "doc.txt">>,
                          <<"a..b">>, <<"", "etc">>}

\* what default_storage holds under every resource directory
StoredFiles == {<<"doc.txt">>, <<"a..b">>}
StoredDirs == {<<>>, <<"dir">>}

\* the path segments that have '..' in them
DotDotSegments == {"..", "a..b"}

HasDotDotSegment(p) == \E i \in 1..Len(p) : p[i] = ".."

\* '..' in resource_scoped_path (a slug has no dots)
HasDotDot(p) == \E i \in 1..Len(p) : p[i] \in DotDotSegments

EndsWithSlash(p) == p # <<>> /\ p[Len(p)] = ""

StripSlash(p) == IF EndsWithSlash(p) THEN SubSeq(p, 1, Len(p) - 1) ELSE p

\* os.path.isfile / os.path.exists
IsFile(p) == p \in StoredFiles

PathExists(p) == IsFile(p) \/ StripSlash(p) \in StoredDirs

\* timedelta(minutes=5) in ticks
FiveMinutes == 1

\* FileDownloadEvent rows matched by get_or_create_if_no_duplicates_past_5_minutes
RecentEvents(r, p, key, t) ==
    {e \in events : e.resource = r /\ e.path = p /\ e.session_key = key
                    /\ e.at >= t - FiveMinutes}

AssociatedAny(r) == {s \in Existing : agreements[s].resource = r}

AssociatedOldest(r) ==
    LET v == QuerySetValid({s \in Existing : agreements[s].resource = r}, now)
    IN  {s \in v : \A o \in v : agreements[s].created <= agreements[o].created}

\* Agreement.objects.filter(resource=resource).valid().order_by('-created').first():
\* the agreements that may come first (created is a date; equal dates tie)
Associated(r) ==
    LET v == QuerySetValid({s \in Existing : agreements[s].resource = r}, now)
    IN  {s \in v : \A o \in v : agreements[o].created <= agreements[s].created}

AccessResponse(u, r, p, outcome, a) ==
    [user |-> u, resource |-> r, path |-> p, outcome |-> outcome, agreement |-> a]

\* default_storage.path(os.path.join(slug, accesspath)): an access path with a
\* leading slash replaces the slug and lies outside the storage root
OutsideRoot(p) == Len(p) > 1 /\ p[1] = ""

\* ResourceAccess.get behind LoginRequiredMixin, up to the lookup of
\* get_or_create; worker s goes on to create the event when it found none
ResourceAccess(s, u, r, p) ==
    /\ fetch[s].pc = "idle"
    /\ \A o \in Slots : o < s => fetch[o].pc # "idle"
    /\ IF u = Anonymous
       THEN /\ access' = AccessResponse(u, r, p, "login", "none")
            /\ UNCHANGED <<session, fetch>>
       ELSE IF Associated(r) = {}
       THEN /\ access' = AccessResponse(u, r, p, "not_found", "none")
            /\ UNCHANGED <<session, fetch>>
       ELSE \E a \in Associated(r) :
            IF ~SignatureExists(a, u)
            THEN /\ session' = [session EXCEPT ![u] = <<r, p>>]
                 /\ access' = AccessResponse(u, r, p, "redirect_agreement", a)
                 /\ UNCHANGED fetch
            ELSE IF HasDotDot(p) \/ OutsideRoot(p)
            THEN /\ access' = AccessResponse(u, r, p, "forbidden", a)
                 /\ UNCHANGED <<session, fetch>>
            ELSE IF ~PathExists(p)
            THEN /\ access' = AccessResponse(u, r, p, "not_found", a)
                 /\ UNCHANGED <<session, fetch>>
            ELSE IF IsFile(p)
            THEN IF Cardinality(RecentEvents(r, p, u, now)) > 1
                 THEN /\ access' = AccessResponse(u, r, p, "MultipleObjectsReturned", a)
                      /\ UNCHANGED <<session, fetch>>
                 ELSE IF RecentEvents(r, p, u, now) = {}
                 THEN /\ fetch' = [fetch EXCEPT ![s] = [pc |-> "creating", user |-> u,
                                                        resource |-> r, path |-> p,
                                                        agreement |-> a]]
                      /\ UNCHANGED <<session, access>>
                 ELSE /\ access' = AccessResponse(u, r, p, "sendfile", a)
                      /\ UNCHANGED <<session, fetch>>
            ELSE IF ~EndsWithSlash(p) /\ p # <<>>
            THEN /\ access' = AccessResponse(u, r, p, "redirect_slash", a)
                 /\ UNCHANGED <<session, fetch>>
            ELSE /\ access' = AccessResponse(u, r, p, "listing", a)
                 /\ UNCHANGED <<session, fetch>>
    /\ UNCHANGED <<now, agreements, signatures, codes, perms, req, resp, nextSigId,
                   nextCodeId, attached, events, resources, users, outbox, page, edit,
                   groups, groupdescriptions, nextGroupId, gdel, form>>

\* the create half of get_or_create (the INSERT sets at to now), then sendfile.
\* The unique constraint covers the timestamp, which has a finer grain than a
\* tick: an INSERT next to a row of the same tick either goes through or hits
\* the very same instant, and get_or_create then answers with a second get().
ResourceAccessCreate(s) ==
    /\ fetch[s].pc = "creating"
    /\ LET f == fetch[s]
           recent == RecentEvents(f.resource, f.path, f.user, now)
       IN  \/ /\ events' = events \cup {[id |-> Cardinality(events) + 1, resource |-> f.resource,
                                          path |-> f.path, session_key |-> f.user, at |-> now]}
              /\ access' = AccessResponse(f.user, f.resource, f.path, "sendfile", f.agreement)
           \/ /\ \E e \in recent : e.at = now
              /\ events' = events
              /\ access' = AccessResponse(f.user, f.resource, f.path,
                                          IF Cardinality(recent) = 1 THEN "sendfile"
                                          ELSE "MultipleObjectsReturned", f.agreement)
    /\ fetch' = [fetch EXCEPT ![s] = IdleFetch]
    /\ UNCHANGED <<now, agreements, signatures, codes, perms, req, resp, nextSigId,
                   nextCodeId, attached, session, resources, users, outbox, page, edit,
                   groups, groupdescriptions, nextGroupId, gdel, form>>

\* the steps of ResourceAccess requests handled by the workers in S
Access(S, U, R, P) ==
    \/ \E s \in S, u \in U, r \in R, p \in P : ResourceAccess(s, u, r, p)
    \/ \E s \in S : ResourceAccessCreate(s)

(* --------------------------- specifications ---------------------------- *)

\* the steps of AgreementRead POST requests of the users in U handled by the
\* workers in S
Signing(S, U) ==
    \/ \E s \in S, u \in U, a \in AgreementSlugs : SignSubmit(s, u, a)
    \/ \E s \in S : SignSave(s)
    \/ \E s \in S : SignSelect(s)
    \/ \E s \in S : SignClaim(s)
    \/ \E s \in S : SignCommit(s)
    \/ \E s \in S : SignAbort(s)

\* Concurrent signings against the license code pool of one agreement
Next ==
    \/ Signing(Slots, Users \cup {Anonymous})
    \/ \E a \in AgreementSlugs : AgreementDelete(a)
    \/ \E r \in Resources, b \in Batches : LicenseCodeAdd(r, b)

Spec == Init /\ [][Next]_vars

\* Two agreements of one resource, one request at a time: the life of a
\* license code over signings, agreement deletions and code submissions
InitLifetime ==
    /\ agreements = [a \in AgreementSlugs |-> Row("r1", AlwaysOpen, FALSE, 0)]
    /\ InitRest

NextLifetime ==
    \/ Signing({1}, {"u1"})
    \/ \E a \in AgreementSlugs : AgreementDelete(a)
    \/ \E r \in Resources, b \in Batches : LicenseCodeAdd(r, b)

SpecLifetime == InitLifetime /\ [][NextLifetime]_vars

\* A member of staff adds and replaces the license codes of both resources,
\* one submission at a time, while a patron signs the agreement of resource r1
ReplaceBatches == Batches \cup {<<"xyz">>}

NextReplace ==
    \/ Signing({1}, {"u1"})
    \/ \E r \in Resources, b \in ReplaceBatches : LicenseCodeAdd(r, b)
    \/ Replacing(Resources, ReplaceBatches)

SpecReplace == Init /\ [][NextReplace]_vars


\* File access by one patron: agreement a1 of resource r1 expires at time 2
\* and may be hidden, agreement a2 (if any) stays open, on r1 or on r2; r1 has
\* one license code
InitAccess ==
    /\ agreements \in
          {f \in [AgreementSlugs -> {Row(r, w, h, d) : r \in Resources, w \in {AlwaysOpen, Window01},
                                                        h \in BOOLEAN, d \in {0, 1}} \cup {Absent}] :
              /\ f["a1"] \in {Row("r1", Window01, h, 0) : h \in BOOLEAN}
              /\ f["a2"] \in {Row(r, AlwaysOpen, FALSE, d) : r \in Resources, d \in {0, 1}} \cup {Absent}}
    /\ InitWith(OneCode)

NextAccess ==
    \/ Signing({1}, {"u1"})
    \/ Access({1}, {"u1", Anonymous}, Resources, AccessPaths)
    \/ Tick

SpecAccess == InitAccess /\ [][NextAccess]_vars

\* Signing by a patron and by a member of staff whose view permission comes
\* and goes, on an agreement that may be hidden or expire
InitVisibility ==
    /\ agreements \in
          {f \in [AgreementSlugs -> {Row("r1", w, h, 0) : w \in {AlwaysOpen, Window01}, h \in BOOLEAN}] :
              f["a1"] = Row("r1", AlwaysOpen, FALSE, 0)}
    /\ InitWith(OneCode)

NextVisibility ==
    \/ Signing({1}, Users \cup {Anonymous})
    \/ \E u \in Staff, a \in AgreementSlugs : GrantPerm(u, "view_agreement", a)
    \/ \E u \in Staff, a \in AgreementSlugs : RevokePerm(u, "view_agreement", a)
    \/ Tick

SpecVisibility == InitVisibility /\ [][NextVisibility]_vars

\* Agreement.valid() and AgreementQuerySet.valid() over every window and
\* visibility the check constraint (end null or end > start) admits
ValidWindows ==
    {[start |-> t, end_isnull |-> TRUE, end |-> 0] : t \in 0..MaxTime}
    \cup {w \in [start : 0..MaxTime, end_isnull : {FALSE}, end : 0..MaxTime] : w.end > w.start}

InitValid ==
    /\ agreements \in [AgreementSlugs -> {Row("r1", w, h, 0) : w \in ValidWindows, h \in BOOLEAN}]
    /\ InitWith(OneCode)

NextValid ==
    \/ \E a \in AgreementSlugs : AgreementReadGet("u1", a)
    \/ Access({1}, {"u1"}, Resources, {<<"doc.txt">>})
    \/ Signing({1}, {"u1"})
    \/ Tick

SpecValid == InitValid /\ [][NextValid]_vars

\* Two workers serving the file requests of one patron, who signs the open
\* agreement of resource r1
InitPaths ==
    /\ agreements = [a \in AgreementSlugs |-> IF a = "a1" THEN Row("r1", AlwaysOpen, FALSE, 0)
                                               ELSE Absent]
    /\ InitWith(OneCode)

NextPaths ==
    \/ Signing({1}, {"u1"})
    \/ Access(Slots, {"u1"}, {"r1"}, Paths)
    \/ Tick

SpecPaths == InitPaths /\ [][NextPaths]_vars

\* A patron, a member of staff whose view permissions come and go, and a
\* visitor browse the lists and pages of an agreement that expires, a hidden
\* agreement, and a resource that is hidden and shown again
InitListing ==
    /\ agreements = [a \in AgreementSlugs |-> IF a = "a1" THEN Row("r1", Window01, FALSE, 0)
                                               ELSE Row("r1", AlwaysOpen, TRUE, 0)]
    /\ InitRest

NextListing ==
    \/ \E u \in Users \cup {Anonymous} : AgreementList(u)
    \/ \E u \in Users \cup {Anonymous} : ResourceList(u)
    \/ \E u \in Users \cup {Anonymous}, a \in AgreementSlugs : AgreementReadGet(u, a)
    \/ \E u \in Users \cup {Anonymous}, r \in Resources : ResourceRead(u, r)
    \/ \E h \in BOOLEAN : ResourceSetHidden("r1", h)
    \/ \E u \in Staff, a \in AgreementSlugs \cup {Global} : GrantPerm(u, "view_agreement", a)
    \/ \E u \in Staff, a \in AgreementSlugs \cup {Global} : RevokePerm(u, "view_agreement", a)
    \/ \E u \in Staff, r \in Resources \cup {Global} : GrantPerm(u, "view_resource", r)
    \/ \E u \in Staff, r \in Resources \cup {Global} : RevokePerm(u, "view_resource", r)
    \/ Tick

SpecListing == InitListing /\ [][NextListing]_vars

\* A member of staff whose permissions on resources come and go, and a patron,
\* open the page and the license codes of a resource that may be hidden
NextPermissions ==
    \/ \E u \in Users \cup {Anonymous}, r \in Resources : ResourceRead(u, r)
    \/ \E u \in Users \cup {Anonymous}, r \in Resources : ResourceLicenseCode(u, r)
    \/ \E h \in BOOLEAN : ResourceSetHidden("r1", h)
    \/ \E u \in Staff, r \in Resources \cup {Global} : GrantPerm(u, "view_resource", r)
    \/ \E u \in Staff, r \in Resources \cup {Global} : RevokePerm(u, "view_resource", r)
    \/ \E u \in Staff, r \in Resources \cup {Global} : GrantPerm(u, "resource_view_licensecodes", r)
    \/ \E u \in Staff, r \in Resources \cup {Global} : RevokePerm(u, "resource_view_licensecodes", r)

SpecPermissions == InitListing /\ [][NextPermissions]_vars

\* Two patrons sign the agreement of resource r1 at the same time, served by
\* two workers; r1 starts with a pool of two or of eleven unassigned codes,
\* with or without a warning address, and with a threshold above or below ten
CodeTexts == <<"c01", "c02", "c03", "c04", "c05", "c06", "c07", "c08", "c09", "c10", "c11">>

Pool(n) == {[id |-> i, resource |-> "r1", code |-> CodeTexts[i], added |-> i,
             signature |-> NoSignature] : i \in 1..n}

InitStock ==
    /\ agreements = [a \in AgreementSlugs |-> IF a = "a1" THEN Row("r1", AlwaysOpen, FALSE, 0)
                                               ELSE Absent]
    /\ \E n \in {2, Len(CodeTexts)}, e \in {"", "library@example.org"},
          t \in {WarnEvery - 1, LowCodesDefault} :
          InitTables(Pool(n), [r \in Resources |->
                                  [DefaultResource EXCEPT !.low_codes_email = e,
                                                          !.low_codes_threshold = t]])

NextStock == Signing(Slots, Users)

SpecStock == InitStock /\ [][NextStock]_vars

\* Users whose is_staff and is_superuser flags are set and cleared open the
\* user pages and the admin menu
NextStaff ==
    \/ \E u \in Users \cup {Anonymous} : UserList(u)
    \/ \E u \in Users \cup {Anonymous}, t \in Users : UserRead(u, t)
    \/ \E u \in Users \cup {Anonymous}, t \in Users : UserUpdate(u, t)
    \/ \E u \in Users \cup {Anonymous}, t \in Users, b \in BOOLEAN : UserUpdatePost(u, t, b)
    \/ \E u \in Users \cup {Anonymous} : AdminView(u)
    \/ \E t \in Users, b \in BOOLEAN, c \in BOOLEAN : UserSave(t, b, c)

SpecStaff == Init /\ [][NextStaff]_vars

\* Staff create, edit and delete group descriptions
NextGroups ==
    \/ \E n \in GroupNames, sl \in GroupSlugs, t \in Descriptions : GroupDescriptionCreate(n, sl, t)
    \/ \E sl \in GroupSlugs, t \in Descriptions : GroupDescriptionUpdate(sl, t)
    \/ \E sl \in GroupSlugs : GroupDescriptionDelete(sl)
    \/ GroupDescriptionDeleteGroup

SpecGroups == Init /\ [][NextGroups]_vars

\* A patron asks for files of two resources, each with an open agreement of
\* its own, and signs the agreements; r1 has one license code
InitAttempt ==
    /\ agreements = [a \in AgreementSlugs |-> IF a = "a1" THEN Row("r1", AlwaysOpen, FALSE, 0)
                                               ELSE Row("r2", AlwaysOpen, FALSE, 0)]
    /\ InitWith(OneCode)

NextAttempt ==
    \/ Signing({1}, {"u1"})
    \/ Access({1}, {"u1"}, Resources, {<<"doc.txt">>, <<"dir", "">>})

SpecAttempt == InitAttempt /\ [][NextAttempt]_vars

\* A patron signs the agreement of resource r1, which has one license code,
\* while a member of staff who may change agreements updates it, pointing it
\* to either resource
NextRetarget ==
    \/ Signing({1}, {"u1"})
    \/ \E u \in Users, a \in AgreementSlugs, r \in Resources :
          AgreementUpdate(u, a, AgreementFormData(r, FormWindow(0, NoEnd), FALSE))
    \/ GrantPerm("u2", "change_agreement", Global)

SpecRetarget == InitPaths /\ [][NextRetarget]_vars

\* A member of staff adds license codes to both resources in batches, some
\* holding a line longer than the code column, while a patron signs the
\* agreement of r1
BulkBatches == {<<"abc">>, <<"abc", LongCode>>, <<LongCode, "ghi">>, <<"ghi", LongCode, "abc">>}

NextBulk ==
    \/ \E r \in Resources, b \in BulkBatches : LicenseCodeAdd(r, b)
    \/ Signing({1}, {"u1"})

SpecBulk == Init /\ [][NextBulk]_vars

\* Two members of staff, one of whom is given and loses global permissions,
\* set the per-object permissions of each other's groups on resource r1 and
\* on the agreements
GlobalPerms == {"add_agreement", "change_agreement", "change_resource"}

NextObjectPermissions ==
    \/ \E u \in Users \cup {Anonymous}, t \in Users, chosen \in SUBSET ResourceObjectPerms :
          ResourcePermissionsGroupUpdate(u, t, "r1", chosen)
    \/ \E u \in Users \cup {Anonymous}, t \in Users, a \in AgreementSlugs,
            chosen \in SUBSET AgreementObjectPerms :
          AgreementPermissionsGroupUpdate(u, t, a, chosen)
    \/ \E p \in GlobalPerms : GrantPerm("u2", p, Global)
    \/ \E p \in GlobalPerms : RevokePerm("u2", p, Global)

SpecObjectPermissions == Init /\ [][NextObjectPermissions]_vars

\* A member of staff whose permissions come and go creates and updates the two
\* agreements of resource r1 with every window of start and end
NextForms ==
    \/ \E u \in Users \cup {Anonymous}, a \in AgreementSlugs, s \in FormStarts, e \in FormEnds :
          AgreementCreate(u, a, AgreementFormData("r1", FormWindow(s, e), FALSE))
    \/ \E u \in Users \cup {Anonymous}, a \in AgreementSlugs, s \in FormStarts, e \in FormEnds :
          AgreementUpdate(u, a, AgreementFormData("r1", FormWindow(s, e), FALSE))
    \/ \E p \in {"add_agreement", "change_agreement"} : GrantPerm("u2", p, Global)

SpecForms == Init /\ [][NextForms]_vars

(* ================================ claims ================================ *)

ResourceOf(s) == agreements[req[s].agreement].resource

\* the code row a request holds after its select step
Chosen(s) == CHOOSE c \in codes : c.id = req[s].code

\* C1: there is at most one Signature per (agreement, signatory) pair, also
\* after a user submits the signing form for an agreement they already signed.
C1_OneSignaturePerPair ==
    \A g1 \in signatures, g2 \in signatures :
        (g1.agreement = g2.agreement /\ g1.signatory = g2.signatory) => g1 = g2

\* a re-signing attempt was answered while the first signature is stored
C1_Witness ==
    /\ resp.resign
    /\ resp.outcome \in {"already_signed", "IntegrityError"}
    /\ signatures # {}

\* C2: under any interleaving no LicenseCode is claimed by two signings: two
\* in-flight signings never hold the same code, a committed claim is not
\* overwritten while its signature exists, and a Signature has at most one code.
C2_NoCodeClaimedTwice ==
    /\ \A s1 \in Slots, s2 \in Slots :
          (s1 # s2 /\ req[s1].pc \in {"locked", "updated"} /\ req[s2].pc \in {"locked", "updated"})
              => req[s1].code # req[s2].code
    /\ \A p \in attached :
          p[2] \in SignatureIds => \E c \in codes : c.id = p[1] /\ c.signature = p[2]
    /\ \A c1 \in codes, c2 \in codes :
          (c1.signature # NoSignature /\ c1.signature = c2.signature) => c1 = c2

\* two signings have claimed codes, one committed and one about to
C2_Witness ==
    /\ \E s \in Slots : req[s].pc = "locked"
    /\ \E c \in codes : c.signature # NoSignature

\* C3: the code a signing takes is the one with the earliest added
\* time among all the codes of the agreement's resource that have no signature.
C3_OldestUnassigned ==
    [][\A s \in Slots :
          (req[s].pc = "saved" /\ req'[s].pc = "locked") =>
              \E c \in Oldest(Unassigned(ResourceOf(s))) : c.id = req'[s].code]_vars

\* C3 amended: the code a signing takes belongs to the agreement's resource,
\* has no signature, and has the earliest added time among the unassigned codes
\* of that resource that no other in-flight signing has locked; codes of other
\* resources and assigned codes are never taken; when no such code exists the
\* Signature is still stored and the request ends with no code attached.
C3_OldestUnassignedUnlocked ==
    [][\A s \in Slots :
          /\ (req[s].pc = "saved" /\ req'[s].pc = "locked") =>
                \E c \in codes :
                    /\ c.id = req'[s].code
                    /\ c.resource = ResourceOf(s)
                    /\ c.signature = NoSignature
                    /\ \A d \in Unassigned(ResourceOf(s)) :
                           d.id \notin LockedByOthers(s) => c.added <= d.added
          /\ (req[s].pc = "saved" /\ req'[s].pc = "idle" /\ resp'.outcome = "signed") =>
                /\ resp'.code = NoCode
                /\ resp'.sig \in SignatureIds'
                /\ codes' = codes
                /\ \A d \in Unassigned(ResourceOf(s)) : d.id \in LockedByOthers(s)]_vars

\* a signing holds the older of two unassigned codes of its resource while a
\* code of another resource exists
C3_Witness ==
    \E s \in Slots :
        /\ req[s].pc = "locked"
        /\ \E d \in Unassigned(ResourceOf(s)) : d.added > Chosen(s).added
        /\ \E d \in codes : d.resource # ResourceOf(s)

\* C4: once a LicenseCode has been attached to a Signature it is never
\* attached to a different Signature.
C4_SingleUse ==
    \A p \in attached, q \in attached : p[1] = q[1] => p[2] = q[2]

\* C5: every attempt to sign an agreement the user has already signed ends with
\* the 'Agreement already signed.' message and a redirect to the agreement page,
\* and creates no signature and claims no code.
C5_ReSignHandled ==
    resp.resign =>
        /\ resp.outcome = "already_signed"
        /\ resp.redirect[1] = "agreements_read"
        /\ resp.sig = NoSignature
        /\ resp.code = NoCode

\* C7: the Signature is inserted in the transaction that locks and claims the
\* code: when the claim step fails or the request is aborted after the insert,
\* no Signature of that request is left persisted.
C7_NoSignatureAfterAbort ==
    [][\A s \in Slots :
          (req[s].pc \in {"saved", "locked", "updated"} /\ req'[s].pc = "idle"
              /\ resp'.outcome = "aborted")
              => req[s].sig \notin SignatureIds']_vars

\* C8: a signing never waits for a code locked by another signing: its select
\* step can always be taken; it takes the oldest unassigned code that no other
\* signing has locked, and when every unassigned code of the resource is locked
\* it completes with its Signature stored and no code.
C8_NeverWaits ==
    /\ [](\A s \in Slots : req[s].pc = "saved" => ENABLED SignSelect(s))
    /\ [][\A s \in Slots :
          /\ (req[s].pc = "saved" /\ req'[s].pc = "locked") =>
                /\ req'[s].code \notin LockedByOthers(s)
                /\ \A d \in Unassigned(ResourceOf(s)) :
                       (d.id \notin LockedByOthers(s)) => Chosen(s)'.added <= d.added
          /\ (req[s].pc = "saved" /\ agreements[req[s].agreement].exists
                 /\ (\A d \in Unassigned(ResourceOf(s)) : d.id \in LockedByOthers(s))
                 /\ req'[s] # req[s] /\ resp'.outcome # "aborted") =>
                /\ req'[s].pc = "idle"
                /\ resp'.outcome = "signed"
                /\ resp'.code = NoCode
                /\ resp'.sig = req[s].sig
                /\ resp'.sig \in SignatureIds]_vars

\* a signing finished without a code while another signing holds the only
\* unassigned code of the resource
C8_Witness ==
    /\ resp.outcome = "signed"
    /\ resp.code = NoCode
    /\ \E s \in Slots :
          /\ req[s].pc = "locked"
          /\ Chosen(s).signature = NoSignature
          /\ \E g \in signatures : g.id = resp.sig /\ agreements[g.agreement].exists
                                   /\ agreements[g.agreement].resource = Chosen(s).resource

\* C6: every Signature was created while its Agreement was valid.
C6_ValidAtSigning ==
    \A g \in signatures : g.valid_at_signing

\* what the sentence calls valid at time t
ValidAt(row, t) == ~row.hidden /\ row.start <= t /\ (row.end_isnull \/ t <= row.end)

\* C9: Agreement.valid() and the AgreementQuerySet.valid() filter both hold at
\* time t iff hidden is false, start <= t, and end is null or t <= end.
C9_ValidAgree ==
    \A a \in Existing :
        /\ AgreementValid(agreements[a], now) = ValidAt(agreements[a], now)
        /\ (a \in QuerySetValid(Existing, now)) = ValidAt(agreements[a], now)

\* both views answered for an agreement on the last instant of its window
C9_Witness ==
    \E a \in Existing :
        /\ ~agreements[a].end_isnull
        /\ agreements[a].end = now
        /\ ~agreements[a].hidden
        /\ resp.outcome = "page"
        /\ resp.redirect = <<"agreements_read", a>>
        /\ access.outcome = "redirect_agreement"
        /\ access.agreement = a

HoldsValidSignature(u, r) ==
    \E a \in Existing :
        agreements[a].resource = r /\ ValidAt(agreements[a], now) /\ SignatureExists(a, u)

HasValidAgreement(r) ==
    \E a \in Existing : agreements[a].resource = r /\ ValidAt(agreements[a], now)

HasAgreement(r) == \E a \in Existing : agreements[a].resource = r

\* C10: a file or listing goes only to an authenticated user holding
\* a Signature on a currently valid Agreement of the Resource; an anonymous
\* request is redirected to login; an authenticated user without such a
\* Signature is redirected to the agreement page (the Resource having an
\* agreement); in neither case is a file sent or a FileDownloadEvent recorded.
C10_AccessNeedsSignature ==
    [][(access' # access \/ events' # events) =>
          LET u == access'.user
              r == access'.resource
          IN  /\ (access'.outcome \in {"sendfile", "listing"} \/ events' # events)
                    => (u \in Users /\ HoldsValidSignature(u, r))
              /\ u = Anonymous => (access'.outcome = "login" /\ events' = events)
              /\ (u \in Users /\ ~HoldsValidSignature(u, r) /\ HasAgreement(r))
                    => (access'.outcome = "redirect_agreement" /\ events' = events)]_vars

\* C10 amended: as stated, except that an authenticated user without such a
\* Signature is redirected to the page of a valid agreement of the Resource
\* when the Resource has one, and gets not-found (404) when it has none.
C10_AccessNeedsSignatureOr404 ==
    [][(access' # access \/ events' # events) =>
          LET u == access'.user
              r == access'.resource
          IN  /\ (access'.outcome \in {"sendfile", "listing"} \/ events' # events)
                    => (u \in Users /\ HoldsValidSignature(u, r))
              /\ u = Anonymous => (access'.outcome = "login" /\ events' = events)
              /\ (u \in Users /\ ~HoldsValidSignature(u, r))
                    => /\ events' = events
                       /\ IF HasValidAgreement(r)
                          THEN /\ access'.outcome = "redirect_agreement"
                               /\ access'.agreement \in Existing
                               /\ agreements[access'.agreement].resource = r
                               /\ ValidAt(agreements[access'.agreement], now)
                          ELSE access'.outcome = "not_found"]_vars

\* a file was sent to a signatory and the download recorded, while a resource
\* without valid agreement exists
C10_Witness ==
    /\ access.outcome = "sendfile"
    /\ access.user \in Users
    /\ HoldsValidSignature(access.user, access.resource)
    /\ \E e \in events : e.session_key = access.user /\ e.resource = access.resource

(* ------------------------------ file access ----------------------------- *)

\* an existing path without traversal
PlainPath(p) == PathExists(p) /\ ~HasDotDot(p) /\ ~OutsideRoot(p)

\* the currently-valid agreements of r with the latest creation date
NewestValid(r) ==
    {a \in Existing : /\ agreements[a].resource = r
                      /\ ValidAt(agreements[a], now)
                      /\ \A b \in Existing :
                            (agreements[b].resource = r /\ ValidAt(agreements[b], now))
                                => agreements[b].created <= agreements[a].created}

SignedNewest(u, r) ==
    NewestValid(r) # {} /\ \A a \in NewestValid(r) : SignatureExists(a, u)

\* a ResourceAccess request was answered without an event to create
Answered == access' # access /\ fetch' = fetch

\* C11: a user who has signed any currently-valid Agreement of the Resource is
\* granted access to an existing, traversal-free path of it and is not
\* redirected to sign another agreement.
C11_AnySignedValidAgreement ==
    [][(/\ Answered
        /\ access'.user \in Users
        /\ HoldsValidSignature(access'.user, access'.resource)
        /\ PlainPath(access'.path))
          => access'.outcome \in {"sendfile", "listing", "redirect_slash"}]_vars

\* C11 amended: a user who has signed the most recently created currently-valid
\* Agreement of the Resource passes the signature check for an existing,
\* traversal-free path and is not redirected to sign; a user who has not
\* signed it is redirected to it, also when they signed an older valid one.
C11_NewestSignedValidAgreement ==
    [][/\ (/\ Answered
           /\ access'.user \in Users
           /\ SignedNewest(access'.user, access'.resource)
           /\ PlainPath(access'.path))
             => access'.outcome \in {"sendfile", "listing", "redirect_slash",
                                      "MultipleObjectsReturned"}
       /\ (/\ Answered
           /\ access'.user \in Users
           /\ NewestValid(access'.resource) # {}
           /\ \A a \in NewestValid(access'.resource) : ~SignatureExists(a, access'.user))
             => /\ access'.outcome = "redirect_agreement"
                /\ access'.agreement \in NewestValid(access'.resource)
       /\ \A s \in Slots :
             (fetch[s].pc = "idle" /\ fetch'[s].pc = "creating")
                 => /\ fetch'[s].agreement \in NewestValid(fetch'[s].resource)
                    /\ SignatureExists(fetch'[s].agreement, fetch'[s].user)]_vars

\* a user who signed the older of two valid agreements of a resource was sent
\* to the newer one, then signed it and was served
C11_Witness ==
    /\ access.outcome \in {"sendfile", "listing"}
    /\ \E a \in Existing, b \in Existing :
          /\ a # b
          /\ agreements[a].resource = access.resource
          /\ agreements[b].resource = access.resource
          /\ ValidAt(agreements[a], now) /\ ValidAt(agreements[b], now)
          /\ agreements[a].created < agreements[b].created
          /\ SignatureExists(a, access.user) /\ SignatureExists(b, access.user)

\* a '..' anywhere in the resource-scoped path, or a path that leaves the root
Traversal(p) == (\E i \in 1..Len(p) : p[i] \in {"..", "a..b"}) \/ (Len(p) > 1 /\ p[1] = "")

\* C12: a request of a signer for a path that contains '..' or resolves outside
\* the storage root is answered 403: no file, no listing, no FileDownloadEvent.
C12_TraversalDenied ==
    [][/\ (/\ Answered
           /\ access'.user \in Users
           /\ SignedNewest(access'.user, access'.resource)
           /\ Traversal(access'.path))
             => (access'.outcome = "forbidden" /\ events' = events)
       /\ \A s \in Slots :
             (fetch[s].pc = "idle" /\ fetch'[s].pc = "creating") => ~Traversal(fetch'[s].path)
       /\ \A e \in events' : ~Traversal(e.path)]_vars

\* the signer was refused a stored file whose name holds '..'
C12_Witness ==
    /\ access.outcome = "forbidden"
    /\ access.path = <<"a..b">>
    /\ SignatureExists(access.agreement, access.user)
    /\ \E e \in events : e.session_key = access.user

\* C13: a file-access request for a Resource with no currently-valid agreement
\* is answered 404 for every logged-in user, also one who signed an agreement
\* of the Resource while it was valid.
C13_NoValidAgreement404 ==
    [][/\ (Answered /\ access'.user \in Users /\ ~HasValidAgreement(access'.resource))
             => (access'.outcome = "not_found" /\ access'.agreement = "none"
                 /\ events' = events /\ session' = session)
       /\ \A s \in Slots :
             (fetch[s].pc = "idle" /\ fetch'[s].pc = "creating")
                 => HasValidAgreement(fetch'[s].resource)]_vars

\* a signatory of the only agreement of a resource, now expired, got 404
C13_Witness ==
    /\ access.outcome = "not_found"
    /\ access.agreement = "none"
    /\ access.user \in Users
    /\ ~HasValidAgreement(access.resource)
    /\ \E a \in Existing :
          /\ agreements[a].resource = access.resource
          /\ SignatureExists(a, access.user)
          /\ ~agreements[a].end_isnull /\ agreements[a].end < now

\* the user holds the permission for all objects or for this one
HoldsPerm(u, perm, obj) == <<u, perm, Global>> \in perms \/ <<u, perm, obj>> \in perms

\* the view answered a logged-in user
PageAnswered == page' # page /\ page'.user \in Users

\* AgreementRead answered a GET of a logged-in user for an existing agreement
ReadAnswered ==
    /\ resp' # resp
    /\ resp'.user \in Users
    /\ resp'.outcome \in {"page", "forbidden"}
    /\ Len(resp'.redirect) = 2
    /\ resp'.redirect[1] = "agreements_read"

\* the lists leave out exactly the hidden objects the user has no view
\* permission for, and a resource page is refused exactly for those
ListsAndResourcePages ==
    /\ (PageAnswered /\ page'.view = "agreements_list")
          => page'.listed = {a \in Existing : ~agreements[a].hidden
                                                \/ HoldsPerm(page'.user, "view_agreement", a)}
    /\ (PageAnswered /\ page'.view = "resources_list")
          => page'.listed = {r \in Resources : ~resources[r].hidden
                                                 \/ HoldsPerm(page'.user, "view_resource", r)}
    /\ (PageAnswered /\ page'.view = "resources_read")
          => page'.outcome = IF ~resources[page'.obj].hidden
                                   \/ HoldsPerm(page'.user, "view_resource", page'.obj)
                             THEN "page" ELSE "forbidden"

\* C14 (as stated): a hidden agreement or resource is listed and served only to
\* a logged-in user holding the view permission globally or on that object,
\* everybody else gets a list without it and a 403; an object that is not
\* hidden is listed and readable for every logged-in user.
C14_HiddenNeedsViewPermission ==
    [][/\ ListsAndResourcePages
       /\ ReadAnswered
             => resp'.outcome = IF ~agreements[resp'.redirect[2]].hidden
                                      \/ HoldsPerm(resp'.user, "view_agreement", resp'.redirect[2])
                                THEN "page" ELSE "forbidden"]_vars

\* C14 (amended): as above for the lists and for resources; an agreement page
\* is served to every logged-in user while the agreement is not hidden and
\* now is within its window, and otherwise (hidden, expired or not yet
\* started) only to a holder of the view permission, others getting a 403.
C14_HiddenOrOutdatedNeedsViewPermission ==
    [][/\ ListsAndResourcePages
       /\ ReadAnswered
             => resp'.outcome = IF ValidAt(agreements[resp'.redirect[2]], now)
                                      \/ HoldsPerm(resp'.user, "view_agreement", resp'.redirect[2])
                                THEN "page" ELSE "forbidden"]_vars

\* a patron without permissions is shown the expired agreement in the list
\* and refused its page, while the hidden resource is kept from the list
C14_Witness ==
    /\ page.user = "u1" /\ page.view = "agreements_list" /\ "a1" \in page.listed
    /\ "a2" \notin page.listed
    /\ resp.user = "u1" /\ resp.outcome = "forbidden" /\ resp.redirect = <<"agreements_read", "a1">>
    /\ ~agreements["a1"].hidden /\ agreements["a1"].end < now
    /\ resources["r1"].hidden

\* C15: every request to a guarded view is decided on the permissions held when
\* it is made, as the global grant or the grant on the object: after the last
\* grant is removed the next request is denied, after a grant the next request
\* is allowed, whatever was answered before.
C15_DecidedOnCurrentPermissions ==
    [][/\ (PageAnswered /\ page'.view = "resources_codes_list")
             => page'.outcome =
                   IF HoldsPerm(page'.user, "resource_view_licensecodes", page'.obj)
                   THEN "page" ELSE "forbidden"
       /\ (PageAnswered /\ page'.view = "resources_read" /\ resources[page'.obj].hidden)
             => page'.outcome =
                   IF HoldsPerm(page'.user, "view_resource", page'.obj)
                   THEN "page" ELSE "forbidden"]_vars

\* the codes of r1 were shown to u2, every grant that covers r1 has been
\* removed since (one on r2 remains), and the same request is now refused
C15_Witness ==
    /\ page = PageResponse("u2", "resources_codes_list", "r1", "page", {})
    /\ ~HoldsPerm("u2", "resource_view_licensecodes", "r1")
    /\ HoldsPerm("u2", "resource_view_licensecodes", "r2")
    /\ ENABLED (ResourceLicenseCode("u2", "r1") /\ page'.outcome = "forbidden")

\* two events of the same resource, path and session
SameFetch(e1, e2) ==
    e1.resource = e2.resource /\ e1.path = e2.path /\ e1.session_key = e2.session_key

\* C16: for each (resource, path, session) at most one FileDownloadEvent is
\* recorded within any five minutes, also when two fetches of the same file in
\* the same session are handled at the same time; a fetch more than five
\* minutes after the last event records a new one.
C16_OneEventPerWindow ==
    \A e1 \in events, e2 \in events :
        (SameFetch(e1, e2) /\ e1 # e2) => (e1.at > e2.at + FiveMinutes \/ e2.at > e1.at + FiveMinutes)

\* the submission repeats a code or names one the resource already holds
RepeatsOrStored(r, batch) ==
    \/ \E i, j \in 1..Len(batch) : i # j /\ batch[i] = batch[j]
    \/ \E i \in 1..Len(batch), c \in codes : c.resource = r /\ c.code = batch[i]

Removed == {c \in codes : \A d \in codes' : d.id # c.id}
Added == {d \in codes' : \A c \in codes : c.id # d.id}

CodesOf(b) == {b[i] : i \in 1..Len(b)}

\* C18: a replace submission with list L for a resource deletes exactly the
\* unassigned codes of that resource that are not in L; afterwards the
\* unassigned codes of the resource are exactly L; codes attached to a
\* signature and codes of other resources are neither deleted nor changed.
C18_ReplaceKeepsAssigned ==
    [][Removed # {} =>
          \E r \in Resources, b \in ReplaceBatches :
             /\ Removed = {c \in codes : c.resource = r /\ c.signature = NoSignature
                                         /\ c.code \notin CodesOf(b)}
             /\ {d.code : d \in {e \in codes' : e.resource = r /\ e.signature = NoSignature}}
                   = CodesOf(b)
             /\ \A c \in codes : (c.signature # NoSignature \/ c.resource # r) => c \in codes'
             /\ \A d \in Added : d.resource = r /\ d.signature = NoSignature]_vars

\* the number of unassigned license codes of resource r among rows
Stock(rows, r) == Cardinality({c \in rows : c.resource = r /\ c.signature = NoSignature})

\* a warning is due for resource r at a count of n unassigned codes
WarningDue(r, n) ==
    /\ resources[r].low_codes_email # ""
    /\ n <= resources[r].low_codes_threshold
    /\ n % 10 = 0

\* C19: whenever an operation brings the count of unassigned codes of a
\* resource down to a value that is at most low_codes_threshold and a multiple
\* of ten (zero included), it sends one warning mail if low_codes_email is
\* set; it sends none when the count is above the threshold, is not a
\* multiple of ten, or low_codes_email is empty.
C19_WarningWhenStockLow ==
    [][\A s \in Slots, r \in Resources :
          (req[s].pc = "updated" /\ req'[s].pc = "idle" /\ Stock(codes', r) < Stock(codes, r))
             => (req[s].warned = IF WarningDue(r, Stock(codes', r)) THEN 1 ELSE 0)]_vars

StaffViews == {"users_list", "users_read", "users_update", "admin"}

\* C20: the user list, user read and user update views and the admin menu are
\* served only to a user whose is_staff flag is true when the request is made:
\* a logged-in user without it gets 403, also on the first request after the
\* flag was taken away.
C20_StaffOnly ==
    [][/\ (PageAnswered /\ page'.view \in StaffViews)
             => page'.outcome = IF users[page'.user].is_staff THEN "page" ELSE "forbidden"
       /\ (PageAnswered /\ page'.view = "users_update_post")
             => page'.outcome = IF users[page'.user].is_staff THEN "redirect" ELSE "forbidden"
       /\ (page' # page /\ page'.user = Anonymous
              /\ page'.view \in StaffViews \cup {"users_update_post"})
             => page'.outcome = "forbidden"
       /\ (users' # users /\ page' # page) => users[page'.user].is_staff]_vars

\* u2 was shown the admin menu, has lost is_staff since, and the next request
\* for the user list is refused
C20_Witness ==
    /\ page = PageResponse("u2", "admin", "none", "page", {})
    /\ ~users["u2"].is_staff
    /\ users["u2"].is_superuser
    /\ ENABLED (UserList("u2") /\ page'.outcome = "forbidden")

\* every GroupDescription among ds points to a Group among gs of its own name
InSync(gs, ds) == \A d \in ds : \E g \in gs : g.id = d.group /\ g.name = d.name

\* C21: after any sequence of GroupDescription create, update and delete
\* operations every GroupDescription is linked to a Group whose name equals
\* the description's name, and a finished delete of a GroupDescription leaves
\* no Group of that name.
C21_GroupsInSync ==
    [][/\ InSync(groups', groupdescriptions')
       /\ (gdel.pc = "deleted" /\ gdel'.pc = "idle")
             => \A g \in groups' : g.name # gdel.name]_vars

\* a description was created and deleted again, its group is gone, and a
\* second description, edited since, and its group are there
C21_Witness ==
    /\ nextGroupId = 3
    /\ gdel.pc = "idle"
    /\ Cardinality(groups) = 1
    /\ \E d \in groupdescriptions : d.description = "text" /\ d.group = 2

(* C22: an agreement form whose end is before its start is answered with the
   non-field error start_date_after_end_date and nothing is saved; a form
   whose end is null or after its start does not get that error *)
Permitted(f) ==
    IF f.view = "agreements_create" THEN <<f.user, "add_agreement", Global>> \in perms
    ELSE /\ agreements[f.agreement].exists
         /\ HoldsPerm(f.user, "change_agreement", f.agreement)

FormAnswered == form' # form /\ form'.user \in Users /\ Permitted(form')

C22_EndBeforeStartRejected ==
    [][FormAnswered =>
         LET d == form'.data
         IN  /\ (~d.end_isnull /\ d.end < d.start)
                  => /\ StartAfterEnd \in form'.errors
                     /\ form'.outcome = "form_invalid"
                     /\ agreements' = agreements
             /\ (d.end_isnull \/ d.end > d.start) => StartAfterEnd \notin form'.errors]_vars

\* an update whose end is before its start was refused and the agreement is as
\* it was created
C22_Witness ==
    /\ form.view = "agreements_update" /\ form.outcome = "form_invalid"
    /\ StartAfterEnd \in form.errors
    /\ form.data.start = 2 /\ form.data.end = 1
    /\ agreements[form.agreement] = Row("r1", AlwaysOpen, FALSE, 0)

(* C28: every start and end that AgreementBaseForm.clean accepts satisfies the
   check constraint of Agreement (end is null or end > start), so saving a
   form-valid agreement never fails on that constraint *)
C28_FormValidSatisfiesConstraint ==
    [][(FormAnswered /\ form'.outcome # "form_invalid")
          => /\ form'.data.end_isnull \/ form'.data.end > form'.data.start
             /\ form'.outcome = "saved"]_vars

(* C23: a file request refused for want of a signature stores (resource,
   access path) in the user's session; the stored attempt stays until the
   user's next successful signing, which redirects to exactly that path and
   removes it; a signing with nothing stored redirects to the page of the
   agreement signed *)
Refused == access' # access /\ access'.outcome = "redirect_agreement"

Signed == resp' # resp /\ resp'.outcome = "signed"

SignedAgreement == (CHOOSE g \in signatures : g.id = resp'.sig).agreement

C23_AttemptRedirectsOnce ==
    [][/\ Refused => session'[access'.user] = <<access'.resource, access'.path>>
       /\ Signed =>
             LET u == resp'.user
             IN  /\ session'[u] = NoAttempt
                 /\ resp'.redirect = IF session[u] # NoAttempt
                                      THEN <<"resources_access", session[u][1], session[u][2]>>
                                      ELSE <<"agreements_read", SignedAgreement>>
       /\ \A u \in Users : session'[u] # session[u] =>
             \/ /\ access'.outcome = "redirect_agreement" /\ access'.user = u
                /\ session'[u] = <<access'.resource, access'.path>>
             \/ Signed /\ resp'.user = u]_vars

\* the patron was sent back to the file asked for and the attempt is gone
C23_Witness ==
    /\ resp.outcome = "signed"
    /\ resp.redirect = <<"resources_access", "r1", <<"doc.txt">>>>
    /\ session[resp.user] = NoAttempt
    /\ access.outcome = "redirect_agreement"

(* C24: after a successful signing the user is redirected only to the page of
   the agreement just signed or to a file-access path of the resource of that
   agreement *)
C24_RedirectWithinSignedResource ==
    [][Signed =>
         \/ resp'.redirect = <<"agreements_read", SignedAgreement>>
         \/ /\ resp'.redirect[1] = "resources_access"
            /\ resp'.redirect[2] = agreements[SignedAgreement].resource]_vars

(* C25: every license code attached to a signature belongs to the resource of
   that signature's agreement, also after an agreement with signatures is
   updated to point to another resource *)
C25_CodeOfAgreementResource ==
    \A c \in codes : c.signature # NoSignature =>
        \E g \in signatures : /\ g.id = c.signature
                              /\ agreements[g.agreement].exists
                              /\ agreements[g.agreement].resource = c.resource

(* C26: a license code is attached to a signature only by the signing request
   that created the signature, when it commits; a signature whose request
   ended without a code (pool empty, every unassigned code locked, or the
   request died) never receives one later, whatever codes are added or
   released afterwards *)
Codeless(g) == \A c \in codes : c.signature # g.id

OwnRequest(g) == \E s \in Slots : req[s].pc # "idle" /\ req[s].sig = g.id

C26_AttachedOnlyBySigningRequest ==
    [][/\ \A c \in codes' :
             (c.signature # NoSignature /\ c \notin codes)
                => \E s \in Slots : /\ req[s].pc = "updated" /\ req'[s].pc = "idle"
                                    /\ req[s].sig = c.signature /\ req[s].code = c.id
       /\ \A g \in signatures :
             (Codeless(g) /\ ~OwnRequest(g))
                => /\ \A c \in codes' : c.signature # g.id
                   /\ \A s \in Slots : req'[s].sig # g.id]_vars

\* a signing ended without a code, nothing is in flight, and an unassigned
\* code of the agreement's resource is in the pool now
C26_Witness ==
    /\ resp.outcome = "signed" /\ resp.code = NoCode
    /\ \A s \in Slots : req[s].pc = "idle"
    /\ \E g \in signatures :
          /\ g.id = resp.sig /\ Codeless(g)
          /\ \E c \in codes : /\ c.signature = NoSignature
                               /\ c.resource = agreements[g.agreement].resource

\* AgreementList, asked now by u, would include a
Listed(u, a) == ENABLED (AgreementList(u) /\ a \in page'.listed)

\* AgreementRead, asked now by u for a, would serve the page
Readable(u, a) == ENABLED (AgreementReadGet(u, a) /\ resp'.outcome = "page")

\* C27 (as stated): for every logged-in user and every agreement, the agreement
\* is in the user's AgreementList iff AgreementRead serves it to that user at
\* the same time.
C27_ListedIffReadable ==
    \A u \in Users, a \in Existing : Listed(u, a) <=> Readable(u, a)

\* C27 (amended): every agreement AgreementRead serves to a logged-in user is in
\* that user's AgreementList at the same time; a listed agreement is refused
\* exactly when it is not hidden, now is outside its window, and the user does
\* not hold view_agreement globally or on it.
C27_ReadableIsListed ==
    \A u \in Users, a \in Existing :
        /\ Readable(u, a) => Listed(u, a)
        /\ (Listed(u, a) /\ ~Readable(u, a))
              <=> /\ ~agreements[a].hidden
                  /\ ~ValidAt(agreements[a], now)
                  /\ ~HoldsPerm(u, "view_agreement", a)

\* the expired agreement is in the patron's list and its page is refused to
\* the patron, while the member of staff holding view_agreement on it may open it
C27_Witness ==
    /\ page.user = "u1" /\ page.view = "agreements_list" /\ "a1" \in page.listed
    /\ resp.user = "u1" /\ resp.outcome = "forbidden" /\ resp.redirect = <<"agreements_read", "a1">>
    /\ Listed("u1", "a1") /\ ~Readable("u1", "a1")
    /\ <<"u2", "view_agreement", "a1">> \in perms /\ Readable("u2", "a1")

(* C29: a bulk-add submission is all-or-nothing: when the view answers with
   'Error when saving license code ...', none of the codes of the batch has
   been stored *)
C29_BulkAddAllOrNothing ==
    [][(page'.view = "resources_codes_add" /\ page'.outcome = "error")
          => \A c \in codes' : \E d \in codes : d.id = c.id]_vars

(* C30: changing the per-object group permissions of an agreement takes the
   change permission, as for a resource: a logged-in user holding
   change_agreement globally or on the agreement can assign and remove them,
   and a user holding neither is refused and changes nothing *)
ObjectPermissionsAnswered(view) ==
    PageAnswered /\ page'.view = view /\ page'.outcome \in {"saved", "forbidden"}

C30_ChangePermissionDecides ==
    [][/\ ObjectPermissionsAnswered("agreements_permissions_groups_update")
             => /\ page'.outcome = IF HoldsPerm(page'.user, "change_agreement", page'.obj)
                                    THEN "saved" ELSE "forbidden"
                /\ page'.outcome = "forbidden" => perms' = perms
       /\ ObjectPermissionsAnswered("resources_permissions_groups_update")
             => /\ page'.outcome = IF HoldsPerm(page'.user, "change_resource", page'.obj)
                                    THEN "saved" ELSE "forbidden"
                /\ page'.outcome = "forbidden" => perms' = perms]_vars

\* the same for resources only, where the view asks for change_resource
C30_ResourceHalf ==
    [][ObjectPermissionsAnswered("resources_permissions_groups_update")
          => /\ page'.outcome = IF HoldsPerm(page'.user, "change_resource", page'.obj)
                                 THEN "saved" ELSE "forbidden"
             /\ page'.outcome = "forbidden" => perms' = perms]_vars

====
